---- MODULE Spec2Model ----
(***************************************************************************)
(* A model of src/tabpfn/model/transformer.py: the RNG isolation scope,    *)
(* LayerStack.forward, and PerFeatureTransformer._forward with its         *)
(* positional-embedding step add_embeddings, the single-slot embedding     *)
(* cache and the separate decoder; the public methods forward,             *)
(* get_embedding and empty_trainset_representation_cache; and the          *)
(* transitive closure of a data DAG.                                       *)
(*                                                                         *)
(* Python's Optional values are modelled as sequences of length 0 or 1:    *)
(* None is <<>> and a present value v is <<v>>.  Tensors are modelled by   *)
(* what the pipeline reads of them: a target stream is the sequence of its *)
(* rows, the feature grid is its feature count, an embedding is one        *)
(* integer per feature group.                                              *)
(***************************************************************************)
EXTENDS Integers, Sequences, FiniteSets, TLC

VARIABLES
    cfg,                \* the constructed model's configuration (self.*)
    cuda_available,     \* torch.cuda.is_available()
    cached_embeddings,  \* self.cached_embeddings
    rng,                \* the global generators: [cpu, cuda]
    call,               \* the last _forward call: inputs, state before, result
    scopes,             \* the open isolate_torch_rng scopes, innermost last
    left,               \* how the last isolate_torch_rng scope was left
    stack,              \* the last LayerStack.forward call
    prep,               \* an input-preparation step of _forward and its result
    api,                \* the last call of a public method and its result
    digraph             \* a DAG under _networkx_add_direct_connections

vars ==
    <<cfg, cuda_available, cached_embeddings, rng, call, scopes, left, stack,
      prep, api, digraph>>

---------------------------------------------------------------------------
(* Bounds of the model. *)

SeqLen == 3         \* rows of x["main"] in a call
MaxFeatures == 3    \* raw feature count of a call is 1..MaxFeatures
RngMod == 3         \* a generator has RngMod states
MaxLayers == 4      \* a stack has 1..MaxLayers layers
MaxDepth == 2       \* isolate_torch_rng scopes nest at most this deep
MaxGroup == 2       \* features_per_group is 1..MaxGroup
MaxCatLen == 2      \* a categorical index list has at most MaxCatLen entries
ModelSeed == 1      \* config.seed of the model

---------------------------------------------------------------------------
(* Optional values and small helpers. *)

None == <<>>
Some(v) == <<v>>
IsNone(o) == o = <<>>
Get(o) == o[1]

\* torch.nan, the "unknown" sentinel of a target row
NaN == -1

Min(a, b) == IF a < b THEN a ELSE b

---------------------------------------------------------------------------
(* The global random generators.  A generator is a counter: a draw returns *)
(* a value that is a function of the state and advances the state.         *)

RngStates == 0 .. (RngMod - 1)

\* the value a draw returns in state s
RngOut(s) == s

\* the state after n draws
RngAdvance(s, n) == (s + n) % RngMod

\* n successive draws from state s
RngDraws(s, n) == [i \in 1 .. n |-> RngOut(RngAdvance(s, i - 1))]

\* torch.manual_seed(seed): seeds the CPU generator and every device generator
manual_seed(r, seed) ==
    [cpu |-> seed % RngMod,
     cuda |-> IF cuda_available THEN seed % RngMod ELSE r.cuda]

\* isolate_torch_rng, entry: torch.get_rng_state(), and
\* torch.cuda.get_rng_state(device) when a device is available
SaveRng(r) ==
    [cpu |-> r.cpu, cuda |-> IF cuda_available THEN Some(r.cuda) ELSE None]

\* RestoreRng restoring the CPU generator only
RestoreCpuOnly(r, saved) == [cpu |-> saved.cpu, cuda |-> r.cuda]

\* isolate_torch_rng, the finally block: torch.set_rng_state(saved), and
\* torch.cuda.set_rng_state(saved) when a device is available
RestoreRng(r, saved) ==
    [cpu |-> saved.cpu,
     cuda |-> IF cuda_available THEN Get(saved.cuda) ELSE r.cuda]

\* one draw from the generator of device dev ("cpu" or "cuda")
DrawOn(r, dev, n) ==
    IF dev = "cuda"
    THEN [r EXCEPT !.cuda = RngAdvance(r.cuda, n)]
    ELSE [r EXCEPT !.cpu = RngAdvance(r.cpu, n)]

\* x.device: tensors live on the device when one is available
XDevice == IF cuda_available THEN "cuda" ELSE "cpu"

GenState(r, dev) == IF dev = "cuda" THEN r.cuda ELSE r.cpu

---------------------------------------------------------------------------
(* LayerStack. *)

\* self.layers of a stack of n layers, by index
Layers(n) == [i \in 1 .. n |-> i - 1]

\* torch.randint(low, high, (1,)).item() on the global CPU generator
RandInt(r, low, high) == low + (RngOut(r.cpu) % (high - low))

\* NumLayersToRun with the upper bound of randint one too high
NumLayersHighOffByOne(r, N, M, half_layers) ==
    IF half_layers THEN N \div 2 ELSE RandInt(r, M, N + 2)

\* n_layers of LayerStack.forward
NumLayersToRun(r, N, M, half_layers) ==
    IF half_layers THEN N \div 2 ELSE RandInt(r, M, N + 1)

\* the Python slice s[:n] for n >= 0
Take(s, n) == SubSeq(s, 1, Min(n, Len(s)))

\* LayerStack.forward on a stack of N layers with dropout floor M: n_layers,
\* the layers invoked, in order, and the generators after
LayerStackForward(r, N, M, half_layers) ==
    IF half_layers /\ M # N
    THEN [outcome |-> "AssertionError", n_layers |-> 0, invoked |-> <<>>,
          rng |-> r]
    ELSE [outcome |-> "ok",
          n_layers |-> NumLayersToRun(r, N, M, half_layers),
          invoked |-> Take(Layers(N), NumLayersToRun(r, N, M, half_layers)),
          rng |-> IF half_layers THEN r ELSE DrawOn(r, "cpu", 1)]

---------------------------------------------------------------------------
(* Positional-embedding sampling and the embedding cache. *)

EmbeddingKinds ==
    {"normal_rand_vec", "uni_rand_vec", "learned", "subspace", "none"}

\* rows of self.feature_positional_embedding_embeddings, nn.Embedding(1_000, ninp)
LearnedTableSize == 1000

\* self.feature_positional_embedding_embeddings.weight[i], the learned table
LearnedWeight(i) == 100 + i

\* self.feature_positional_embedding_embeddings(v), the learned nn.Linear
SubspaceLinear(v) == 3 * v + 1

\* embs of add_embeddings: one value per feature group, sampled from the
\* generators r; None for the kind None
SampleEmbs(kind, r, G) ==
    CASE kind = "normal_rand_vec" ->
            Some(RngDraws(GenState(r, XDevice), G))
      [] kind = "uni_rand_vec" ->
            Some([i \in 1 .. G |-> RngDraws(GenState(r, XDevice), G)[i] * 2 - 1])
      [] kind = "learned" ->
            Some([i \in 1 .. G |->
                    LearnedWeight(RngDraws(r.cpu, G)[i] % LearnedTableSize)])
      [] kind = "subspace" ->
            Some([i \in 1 .. G |->
                    SubspaceLinear(RngDraws(GenState(r, XDevice), G)[i])])
      [] OTHER -> None

\* the generators after the sampling of SampleEmbs
AfterSampling(kind, r, G) ==
    CASE kind = "learned" -> DrawOn(r, "cpu", G)
      [] kind = "none" -> r
      [] OTHER -> DrawOn(r, XDevice, G)

\* SampleInScope without the scope: sampling from the global generators
SampleUnseeded(r, G) ==
    [embs |-> SampleEmbs(cfg.feature_positional_embedding, r, G),
     rng |-> AfterSampling(cfg.feature_positional_embedding, r, G)]

\* the body of `with isolate_torch_rng(self.seed, device=x.device)`: the
\* sampled embs and the generators when the scope is left
SampleInScope(r, G) ==
    LET saved == SaveRng(r)
        seeded == manual_seed(r, cfg.seed)
    IN  [embs |-> SampleEmbs(cfg.feature_positional_embedding, seeded, G),
         rng |-> RestoreRng(
                    AfterSampling(cfg.feature_positional_embedding, seeded, G),
                    saved)]

\* x += v[None, None] for a per-group vector v and a grid of G groups: the
\* in-place add broadcasts a one-group vector and refuses any other mismatch
CanBroadcast(v, G) == Len(v) = G \/ Len(v) = 1
Broadcast(v, G) == [i \in 1 .. G |-> IF Len(v) = 1 THEN v[1] ELSE v[i]]

\* CacheStore storing the grid's values after the add instead of embs
CacheStoreAfterAdd(embs) ==
    Some([i \in 1 .. Len(Get(embs)) |-> Get(embs)[i] + Get(embs)[i] + 1])

\* what add_embeddings stores in self.cached_embeddings after sampling embs
CacheStore(embs) == Some(Get(embs))

\* the result of add_embeddings:
\*   outcome   "ok" or the exception raised
\*   added     the per-group vector added to the feature grid (None: nothing)
\*   usedCache the cached vector was added
\*   stored    the sampled vector was stored in the cache
\*   graph     graph positional encodings were added to x and y
\*   cache     self.cached_embeddings when the step ends
\*   rng       the global generators when the step ends
EmbResult(outcome, added, usedCache, stored, graph, cache, r) ==
    [outcome |-> outcome, added |-> added, usedCache |-> usedCache,
     stored |-> stored, graph |-> graph, cache |-> cache, rng |-> r]

\* the data_dags branch of add_embeddings for one example (lines 730-778),
\* entered with the cache already updated
AddGraphEmbeddings(added, stored, cache, r, data_dags) ==
    IF data_dags # "none"
    THEN IF cfg.dag_pos_enc_dim = 0
         THEN EmbResult("AssertionError", added, FALSE, stored, FALSE, cache, r)
         ELSE IF data_dags = "eigfail"
         THEN EmbResult("ArpackError", added, FALSE, stored, FALSE, cache, r)
         ELSE \* _add_pos_emb draws the signs from the global CPU generator
              EmbResult("ok", added, FALSE, stored, TRUE, cache,
                        DrawOn(r, "cpu", 1))
    ELSE IF cfg.dag_pos_enc_dim # 0
         THEN EmbResult("AssertionError", added, FALSE, stored, FALSE, cache, r)
         ELSE EmbResult("ok", added, FALSE, stored, FALSE, cache, r)

\* PerFeatureTransformer.add_embeddings on a grid of G feature groups
add_embeddings(cache, r, G, data_dags, cache_embeddings, use_cached_embeddings) ==
    IF use_cached_embeddings /\ ~IsNone(cache)
    THEN IF data_dags # "none"
         THEN EmbResult("AssertionError", None, FALSE, FALSE, FALSE, cache, r)
         ELSE IF ~CanBroadcast(Get(cache), G)
         THEN EmbResult("RuntimeError", None, FALSE, FALSE, FALSE, cache, r)
         ELSE EmbResult("ok", Some(Broadcast(Get(cache), G)), TRUE, FALSE,
                        FALSE, cache, r)
    ELSE LET s == SampleInScope(r, G)
             added == s.embs
         IN  IF cache_embeddings /\ ~IsNone(s.embs)
             THEN IF data_dags # "none"
                  THEN EmbResult("AssertionError", added, FALSE, FALSE, FALSE,
                                 None, s.rng)
                  ELSE AddGraphEmbeddings(added, TRUE, CacheStore(s.embs),
                                          s.rng, data_dags)
             ELSE AddGraphEmbeddings(added, FALSE, None, s.rng, data_dags)

---------------------------------------------------------------------------
(* PerFeatureTransformer._forward. *)

\* an input of _forward:
\*   F      x["main"].shape[2], the raw feature count
\*   y      None, or the rows of the "main" target stream
\*   sep    single_eval_pos: None or an index
\*   dags   data_dags: "none", or per-example DAGs on which the eigen-solver
\*          converges ("ok") or does not ("eigfail")
\*   half   half_layers
\*   style  whether a style vector is passed
\*   ynan   whether what self.y_encoder returns contains a NaN
\*   xnan   whether what self.encoder returns contains a NaN
Falsy(sep) == IsNone(sep) \/ Get(sep) = 0

\* single_eval_pos_ = single_eval_pos or 0
SplitIndex(sep) == IF IsNone(sep) THEN 0 ELSE Get(sep)

\* Precondition with the caching branch testing single_eval_pos against None
\* instead of for falsiness
PreconditionIsNoneTest(in) ==
    /\ ~in.style
    /\ IF cfg.cache_trainset_representation
       THEN IsNone(in.sep) => IsNone(in.y)
       ELSE ~IsNone(in.y) /\ ~Falsy(in.sep)

\* the assertions that open _forward (lines 417-423)
Precondition(in) ==
    /\ ~in.style
    /\ IF cfg.cache_trainset_representation
       THEN Falsy(in.sep) => IsNone(in.y)
       ELSE ~IsNone(in.y) /\ ~Falsy(in.sep)

\* MissingToNext without the outer modulo
MissingToNextNoWrap(F, g) == g - (F % g)

\* missing_to_next: the columns appended to F features for groups of g
MissingToNext(F, g) == (g - (F % g)) % g

\* x["main"].shape[2] after padding and grouping: the number of feature groups
NumGroups(F, g) == (F + MissingToNext(F, g)) \div g

\* the rows of y["main"]; an absent y is torch.zeros(0, batch_size)
TargetRows(y) == IF IsNone(y) THEN <<>> ELSE Get(y)

\* TargetLengthOk accepting any stream of at least single_eval_pos_ rows
TargetLengthAtLeastSplit(k, len, p, S) == len < S => len >= p

\* the assertions on a target stream k shorter than the feature grid
TargetLengthOk(k, len, p, S) ==
    len < S => /\ (len = p \/ len = S)
               /\ (k # "main" \/ len = p)

\* a stream of single_eval_pos_ rows is padded with NaN rows to S rows
PadTarget(rows, p, S) ==
    IF Len(rows) < S /\ Len(rows) = p
    THEN rows \o [i \in 1 .. (S - Len(rows)) |-> NaN]
    ELSE rows

\* MaskTarget starting one row late
MaskTargetOneLate(rows, p) ==
    [i \in 1 .. Len(rows) |-> IF i > p + 1 THEN NaN ELSE rows[i]]

\* y["main"][single_eval_pos_:] = torch.nan
MaskTarget(rows, p) == [i \in 1 .. Len(rows) |-> IF i > p THEN NaN ELSE rows[i]]

\* the "main" target stream handed to self.y_encoder
TargetStream(y, p, S) == MaskTarget(PadTarget(TargetRows(y), p, S), p)

\* cache_embeddings and use_cached_embeddings as _forward passes them
CacheEmbeddingsArg(sep) == cfg.cache_trainset_representation /\ ~IsNone(sep)
UseCachedEmbeddingsArg(sep) == cfg.cache_trainset_representation /\ IsNone(sep)

\* the result of a _forward call:
\*   outcome  "ok" or the exception raised
\*   stage    the step that raised, or "done"
\*   yenc     None, or the "main" target stream handed to the y-encoder
\*   emb      None, or the result of add_embeddings
\*   invoked  the layers of the encoder stack invoked, in order
\*   pred     None, or what the evaluation-row predictions are computed from
\*   cache, rng  self.cached_embeddings and the generators when the call ends
ForwardResult(outcome, stage, yenc, emb, invoked, pred, cache, r) ==
    [outcome |-> outcome, stage |-> stage, yenc |-> yenc, emb |-> emb,
     invoked |-> invoked, pred |-> pred, cache |-> cache, rng |-> r]

\* the readout: the evaluation rows S - p of the encoder output, which is
\* computed from the encoded targets, the feature grid with its positional
\* embeddings, and the layers applied
Readout(in, yenc, emb, invoked) ==
    [rows |-> SeqLen - Min(SplitIndex(in.sep), SeqLen),
     F |-> in.F, yenc |-> yenc, added |-> emb.added, graph |-> emb.graph,
     invoked |-> invoked, enc_rows |-> SeqLen, dec |-> None]

\* the rows of embedded_input handed to self.transformer_encoder: all of
\* them, or embedded_input[:, :single_eval_pos_] with a separate decoder
EncoderRows(p) == IF cfg.use_separate_decoder THEN Min(p, SeqLen) ELSE SeqLen

\* att_src of the decoder call: the encoder output of the training rows
DecoderAttSrc == "encoder_out"

\* the decoder branch of _forward (lines 617-635), entered with the result
\* enc of the encoder stack on the training rows
DecoderPass(in, yenc, emb, enc) ==
    LET p == SplitIndex(in.sep)
        dec == LayerStackForward(enc.rng, cfg.nlayers_decoder,
                                 cfg.nlayers_decoder, FALSE)
    IN  IF in.half \/ EncoderRows(p) # p
        THEN ForwardResult("AssertionError", "transformer_decoder",
                           Some(yenc), Some(emb), enc.invoked, None,
                           emb.cache, enc.rng)
        ELSE IF cfg.use_encoder_compression_layer
        THEN \* encoder_out[:, single_eval_pos_] on an encoder output of
             \* single_eval_pos_ rows
             ForwardResult("IndexError", "encoder_compression", Some(yenc),
                           Some(emb), enc.invoked, None, emb.cache, enc.rng)
        ELSE ForwardResult("ok", "done", Some(yenc), Some(emb), enc.invoked,
                 Some([Readout(in, yenc, emb, enc.invoked) EXCEPT
                         !.enc_rows = EncoderRows(p),
                         !.dec = Some([rows |-> SeqLen - p,
                                       single_eval_pos |-> 0,
                                       att_src |-> DecoderAttSrc,
                                       invoked |-> dec.invoked])]),
                 emb.cache, dec.rng)

\* torch.isnan(embedded_y).any()
EmbeddedYHasNaN(in) == in.ynan

\* EmbeddedInputHasNaN with the check of the assembled grid left out
EmbeddedInputUnchecked(in) == FALSE

\* torch.isnan(embedded_input).any(): the grid is the encoded features, to
\* which finite positional embeddings were added, and the encoded targets,
\* which held no NaN when they were checked
EmbeddedInputHasNaN(in) == in.xnan

\* whether a call that ended in stage ran self.encoder, the input encoder
InputEncoderRan(stage) == stage \notin {"precondition", "target", "y_encoder"}

\* _forward from add_embeddings on (lines 578-657)
ForwardFromEmbeddings(cache, r, in, yenc) ==
    LET emb == add_embeddings(cache, r,
                   NumGroups(in.F, cfg.features_per_group), in.dags,
                   CacheEmbeddingsArg(in.sep), UseCachedEmbeddingsArg(in.sep))
        enc == LayerStackForward(emb.rng, cfg.num_layers,
                   cfg.min_num_layers_layer_dropout, in.half)
    IN  IF emb.outcome # "ok"
        THEN ForwardResult(emb.outcome, "add_embeddings", Some(yenc), Some(emb),
                           <<>>, None, emb.cache, emb.rng)
        ELSE IF Len(yenc) # SeqLen
        THEN \* torch.cat of the grid and the target slot: the rows differ
             ForwardResult("RuntimeError", "token_assembly", Some(yenc),
                           Some(emb), <<>>, None, emb.cache, emb.rng)
        ELSE IF EmbeddedInputHasNaN(in)
        THEN ForwardResult("ValueError", "embedded_input", Some(yenc),
                           Some(emb), <<>>, None, emb.cache, emb.rng)
        ELSE IF enc.outcome # "ok"
        THEN ForwardResult(enc.outcome, "transformer_encoder", Some(yenc),
                           Some(emb), <<>>, None, emb.cache, enc.rng)
        ELSE IF cfg.use_separate_decoder
        THEN DecoderPass(in, yenc, emb, enc)
        ELSE ForwardResult("ok", "done", Some(yenc), Some(emb), enc.invoked,
                           Some(Readout(in, yenc, emb, enc.invoked)),
                           emb.cache, enc.rng)

\* PerFeatureTransformer._forward, called with self.cached_embeddings = cache
\* and the global generators r
_forward(cache, r, in) ==
    LET p == SplitIndex(in.sep)
    IN  IF ~Precondition(in)
        THEN ForwardResult("AssertionError", "precondition", None, None, <<>>,
                           None, cache, r)
        ELSE IF ~TargetLengthOk("main", Len(TargetRows(in.y)), p, SeqLen)
        THEN ForwardResult("AssertionError", "target", None, None, <<>>,
                           None, cache, r)
        ELSE IF EmbeddedYHasNaN(in)
        THEN ForwardResult("ValueError", "y_encoder",
                           Some(TargetStream(in.y, p, SeqLen)), None, <<>>,
                           None, cache, r)
        ELSE ForwardFromEmbeddings(cache, r, in, TargetStream(in.y, p, SeqLen))

---------------------------------------------------------------------------
(* The model as a state machine: forward calls on one constructed model.   *)

\* the configuration of a constructed model
Config(cache, kind, dag, N, M) ==
    [cache_trainset_representation |-> cache,
     feature_positional_embedding |-> kind,
     dag_pos_enc_dim |-> dag,
     features_per_group |-> MaxGroup,
     num_layers |-> N,
     min_num_layers_layer_dropout |-> M,
     seed |-> ModelSeed,
     use_separate_decoder |-> FALSE,
     use_encoder_compression_layer |-> FALSE,
     nlayers_decoder |-> 0]

Max(a, b) == IF a > b THEN a ELSE b

\* the model of configuration c built with config.use_separate_decoder and
\* no nlayers_decoder given: a third of config.nlayers go to the decoder and
\* two thirds to the encoder, neither with layer dropout
WithDecoder(c, use_encoder_compression_layer) ==
    [c EXCEPT
        !.use_separate_decoder = TRUE,
        !.use_encoder_compression_layer = use_encoder_compression_layer,
        !.nlayers_decoder = Max((c.num_layers \div 3) * 1, 1),
        !.num_layers = Max((c.num_layers \div 3) * 2, 1),
        !.min_num_layers_layer_dropout = Max((c.num_layers \div 3) * 2, 1)]

Configs ==
    {Config(cache, kind, dag, MaxLayers, M) :
        cache \in BOOLEAN, kind \in EmbeddingKinds, dag \in {0, 1},
        M \in {MaxLayers - 1, MaxLayers}}

\* the configurations of the target-stream specification
TargetConfigs ==
    {Config(cache, "normal_rand_vec", 0, MaxLayers, MaxLayers) :
        cache \in BOOLEAN}

Input(F, y, sep, dags, half, style) ==
    [F |-> F, y |-> y, sep |-> sep, dags |-> dags, half |-> half,
     style |-> style, ynan |-> FALSE, xnan |-> FALSE]

\* the call in with encoders that return NaNs
WithNaN(in, ynan, xnan) == [in EXCEPT !.ynan = ynan, !.xnan = xnan]

\* the values of a target row
YVals == {1, 2}

\* the target streams of n rows
Streams(n) == [1 .. n -> YVals]

\* a target stream of n rows, all 1
ConstRows(n) == [i \in 1 .. n |-> 1]

\* the calls of the specification Spec: one and two feature groups, with and
\* without targets, split index and DAGs
Inputs ==
    {Input(F, y, sep, dags, FALSE, FALSE) :
        F \in {MaxFeatures - 1, MaxFeatures},
        y \in {None, Some(ConstRows(SeqLen))},
        sep \in {None, Some(0), Some(SeqLen - 1)},
        dags \in {"none", "ok", "eigfail"}}

\* the calls of the specification SpecTarget: every target stream of up to
\* SeqLen + 1 rows with every split index
TargetInputs ==
    {Input(MaxFeatures, y, sep, "none", half, style) :
        y \in {None} \cup
              {Some(rows) : rows \in UNION {Streams(n) : n \in 0 .. SeqLen + 1}},
        sep \in {None} \cup {Some(p) : p \in 0 .. SeqLen},
        half \in BOOLEAN,
        style \in {FALSE}} \cup
    {Input(MaxFeatures, y, sep, "none", FALSE, TRUE) :
        y \in {None, Some(ConstRows(SeqLen))},
        sep \in {None} \cup {Some(p) : p \in 0 .. SeqLen}} \cup
    {WithNaN(Input(MaxFeatures, y, sep, "none", half, FALSE), ynan, xnan) :
        y \in {None, Some(ConstRows(SeqLen))},
        sep \in {None} \cup {Some(p) : p \in 0 .. SeqLen},
        half \in BOOLEAN, ynan \in BOOLEAN, xnan \in BOOLEAN}

NoCall == [made |-> FALSE]
NoScopeLeft == [made |-> FALSE]
NoStackCall == [made |-> FALSE]
NoPrep == [op |-> "none"]
NoApi == [op |-> "none"]
NoGraph == [made |-> FALSE]

\* the cache slot of a model: empty, or, on a model that caches training
\* representations, what an earlier caching call on G groups left in it
CacheStates(G) ==
    {None} \cup
    IF cfg.cache_trainset_representation
    THEN {CacheStore(SampleInScope(rng, G).embs)}
    ELSE {}

InitModel(configs) ==
    /\ cfg \in configs
    /\ cuda_available = FALSE
    /\ cached_embeddings = None
    /\ rng \in [cpu : RngStates, cuda : {0}]
    /\ call = NoCall
    /\ scopes = <<>>
    /\ left = NoScopeLeft
    /\ stack = NoStackCall
    /\ prep = NoPrep
    /\ api = NoApi
    /\ digraph = NoGraph

\* whether a call repeats the inputs of the call before it, and if so
\* whether the global generators are in the state they were in then
Again(in) ==
    IF call.made /\ call.in = in
    THEN IF call.pre.rng = rng THEN "same" ELSE "moved"
    ELSE "no"

\* a call of _forward
Forward(in) ==
    \E res \in {_forward(cached_embeddings, rng, in)} :
        /\ call' = [made |-> TRUE, in |-> in,
                    pre |-> [cache |-> cached_embeddings, rng |-> rng],
                    again |-> Again(in),
                    res |-> res]
        /\ cached_embeddings' = res.cache
        /\ rng' = res.rng
        /\ UNCHANGED <<cfg, cuda_available, scopes, left, stack, prep, api,
                       digraph>>

\* a random draw made by the caller between calls
OuterDraw ==
    /\ rng' = DrawOn(rng, "cpu", 1)
    /\ UNCHANGED <<cfg, cuda_available, cached_embeddings, call, scopes, left,
                   stack, prep, api, digraph>>

Init == InitModel(Configs)

Next ==
    \/ \E in \in Inputs : Forward(in)
    \/ OuterDraw

Spec == Init /\ [][Next]_vars

\* one call on each model state: a fresh model, or one whose cache slot an
\* earlier caching call has filled
InitTarget ==
    /\ cfg \in TargetConfigs
    /\ cuda_available = FALSE
    /\ rng \in [cpu : RngStates, cuda : {0}]
    /\ cached_embeddings \in
            CacheStates(NumGroups(MaxFeatures, cfg.features_per_group))
    /\ call = NoCall
    /\ scopes = <<>>
    /\ left = NoScopeLeft
    /\ stack = NoStackCall
    /\ prep = NoPrep
    /\ api = NoApi
    /\ digraph = NoGraph

NextTarget == \E in \in TargetInputs : ~call.made /\ Forward(in)

SpecTarget == InitTarget /\ [][NextTarget]_vars

---------------------------------------------------------------------------
(* Claims about the target stream and the precondition check (SpecTarget). *)

\* the calls that differ from a call with targets y only in the values of
\* the rows at positions >= p
EvalVariants(y, p) ==
    IF IsNone(y)
    THEN {None}
    ELSE {Some(rows) : rows \in
            {r \in Streams(Len(Get(y))) :
                \A i \in 1 .. Len(Get(y)) : i <= p => r[i] = Get(y)[i]}}

\* C1: in every call that reaches the y-encoder, every row of the "main"
\* target stream at a position >= p is NaN when the stream is handed to the
\* y-encoder; and a call that differs only in the "main" target values at
\* positions >= p hands the y-encoder the same stream and computes the same
\* evaluation-row predictions.
C1_EvalTargetsNeverReachEncoder ==
    (call.made /\ ~IsNone(call.res.yenc)) =>
        LET p == SplitIndex(call.in.sep)
            yenc == Get(call.res.yenc)
        IN  /\ \A i \in 1 .. Len(yenc) : i > p => yenc[i] = NaN
            /\ \A y2 \in EvalVariants(call.in.y, p) :
                 LET other == _forward(call.pre.cache, call.pre.rng,
                                       [call.in EXCEPT !.y = y2])
                 IN  /\ other.yenc = call.res.yenc
                     /\ other.pred = call.res.pred

\* a completed call given a full-length target stream whose evaluation rows
\* hold real values
C1_Witness ==
    /\ call.made
    /\ call.res.outcome = "ok"
    /\ ~IsNone(call.in.y)
    /\ Len(Get(call.in.y)) = SeqLen
    /\ SplitIndex(call.in.sep) = 1
    /\ Get(call.in.y)[SeqLen] = 2
    /\ Get(call.res.yenc)[1] = Get(call.in.y)[1]

\* C2, as claimed: a call whose "main" target stream has more than p rows,
\* up to the full sequence length, fails with an assertion error and does
\* not run the pipeline.
C2_MoreThanSplitRowsAlwaysFail ==
    (/\ call.made
     /\ ~IsNone(call.in.y)
     /\ Len(Get(call.in.y)) > SplitIndex(call.in.sep)
     /\ Len(Get(call.in.y)) <= SeqLen) =>
        /\ call.res.outcome = "AssertionError"
        /\ IsNone(call.res.yenc)

\* C2, amended: a "main" target stream with more than p rows and fewer rows
\* than the sequence fails with an assertion error before any encoder runs
\* and leaves the model untouched; a stream of full sequence length with
\* p >= 1 is accepted, and the pipeline runs on it with the rows from p on
\* set to NaN.
C2_ShortOfFullLengthFails ==
    (call.made /\ ~IsNone(call.in.y)) =>
        LET p == SplitIndex(call.in.sep)
            len == Len(Get(call.in.y))
        IN  /\ (p < len /\ len < SeqLen) =>
                /\ call.res.outcome = "AssertionError"
                /\ call.res.stage \in {"precondition", "target"}
                /\ IsNone(call.res.yenc)
                /\ IsNone(call.res.emb)
                /\ call.res.cache = call.pre.cache
                /\ call.res.rng = call.pre.rng
            /\ (len = SeqLen /\ p >= 1 /\ ~call.in.style) =>
                /\ call.res.stage \notin {"precondition", "target"}
                /\ ~IsNone(call.res.yenc)
                /\ \A i \in 1 .. SeqLen :
                     Get(call.res.yenc)[i] =
                        IF i > p THEN NaN ELSE Get(call.in.y)[i]

\* a call that passes the precondition check and is refused for a target
\* stream of p + 1 rows, fewer than the sequence
C2_Witness ==
    /\ call.made
    /\ call.res.stage = "target"
    /\ SplitIndex(call.in.sep) >= 1
    /\ Len(Get(call.in.y)) = SplitIndex(call.in.sep) + 1
    /\ Len(Get(call.in.y)) < SeqLen

\* the combinations of y and single_eval_pos that C10 says are refused
RefusedCombination(in) ==
    \/ /\ ~cfg.cache_trainset_representation
       /\ (IsNone(in.y) \/ IsNone(in.sep) \/ Get(in.sep) = 0)
    \/ /\ cfg.cache_trainset_representation
       /\ (IsNone(in.sep) \/ Get(in.sep) = 0)
       /\ ~IsNone(in.y)

\* C10: with no style vector, the precondition check fails exactly for the
\* refused combinations of y and single_eval_pos, with an assertion error
\* and before any encoder, positional-embedding or cache step; every other
\* combination passes the check.
C10_PreconditionCheck ==
    (call.made /\ ~call.in.style) =>
        /\ (call.res.stage = "precondition") <=> RefusedCombination(call.in)
        /\ (call.res.stage = "precondition") =>
              /\ call.res.outcome = "AssertionError"
              /\ IsNone(call.res.yenc)
              /\ IsNone(call.res.emb)
              /\ call.res.invoked = <<>>
              /\ call.res.cache = call.pre.cache
              /\ call.res.rng = call.pre.rng

\* a caching model refuses targets given with single_eval_pos = 0, with its
\* cache slot filled and left as it was
C10_Witness ==
    /\ call.made
    /\ cfg.cache_trainset_representation
    /\ call.in.sep = Some(0)
    /\ ~IsNone(call.in.y)
    /\ ~IsNone(call.pre.cache)
    /\ call.res.stage = "precondition"

\* C12: a call whose y-encoder output contains a NaN raises ValueError
\* before the input encoder, the positional-embedding step and the layer
\* stack run; a call whose assembled token grid contains a NaN raises
\* ValueError before the layer stack runs; neither applies a layer nor
\* returns an output.
C12_NaNRaisesBeforeLayers ==
    call.made =>
        /\ (call.in.ynan /\ ~IsNone(call.res.yenc)) =>
              /\ call.res.outcome = "ValueError"
              /\ call.res.stage = "y_encoder"
              /\ ~InputEncoderRan(call.res.stage)
              /\ IsNone(call.res.emb)
        /\ (call.in.xnan /\ InputEncoderRan(call.res.stage)) =>
              /\ call.res.outcome # "ok"
              /\ (call.res.stage = "embedded_input") =>
                    call.res.outcome = "ValueError"
              /\ call.res.stage \in
                    {"add_embeddings", "token_assembly", "embedded_input"}
        /\ (call.in.ynan \/ call.in.xnan) =>
              /\ call.res.outcome # "ok"
              /\ call.res.invoked = <<>>
              /\ IsNone(call.res.pred)

\* a call whose targets encode without NaN and whose encoded features hold
\* one is refused at the check of the assembled grid, after the
\* positional-embedding step
C12_Witness ==
    /\ call.made
    /\ call.in.xnan
    /\ ~call.in.ynan
    /\ call.res.stage = "embedded_input"
    /\ call.res.outcome = "ValueError"
    /\ ~IsNone(call.res.emb)
    /\ Get(call.res.emb).outcome = "ok"

---------------------------------------------------------------------------
(* Claims about the embedding cache and determinism (Spec). *)

\* the feature groups of a call
GroupsOf(in) == NumGroups(in.F, cfg.features_per_group)

\* a call that ran its positional-embedding step
RanEmbeddings(c) == c.made /\ ~IsNone(c.res.emb)

\* a cache-consuming call on a filled cache slot of the call's group count
ConsumesCache(c) ==
    /\ RanEmbeddings(c)
    /\ cfg.cache_trainset_representation
    /\ cfg.feature_positional_embedding # "none"
    /\ IsNone(c.in.sep)
    /\ c.in.dags = "none"
    /\ ~IsNone(c.pre.cache)
    /\ Len(Get(c.pre.cache)) = GroupsOf(c.in)

\* C3: on a caching model with a positional-embedding kind, every
\* cache-consuming call (single_eval_pos absent, no DAGs, the group count of
\* the caching call) that follows a caching call adds to the feature grid
\* exactly the per-group vector that sampling under the model's seed adds,
\* and leaves the cache slot unchanged.
C3_CachedEqualsSampled ==
    ConsumesCache(call) =>
        /\ Get(call.res.emb).outcome = "ok"
        /\ Get(call.res.emb).usedCache
        /\ Get(call.res.emb).added =
              SampleEmbs(cfg.feature_positional_embedding,
                         manual_seed(call.pre.rng, cfg.seed), GroupsOf(call.in))
        /\ call.res.cache = call.pre.cache
        /\ cached_embeddings = call.pre.cache

\* a cache-consuming call on two groups, repeated, made while the global
\* generator is not in the seeded state
C3_Witness ==
    /\ ConsumesCache(call)
    /\ call.again # "no"
    /\ GroupsOf(call.in) = 2
    /\ call.pre.rng.cpu # cfg.seed % RngMod
    /\ call.res.outcome = "ok"

\* C4, as claimed: a positional-embedding step given DAGs does not add the
\* cached vector, stores nothing in the cache, and ends with the cache slot
\* empty, whether it completes or raises.
C4_DagStepLeavesCacheEmpty ==
    (RanEmbeddings(call) /\ call.in.dags # "none") =>
        /\ ~Get(call.res.emb).usedCache
        /\ ~Get(call.res.emb).stored
        /\ IsNone(Get(call.res.emb).cache)
        /\ IsNone(cached_embeddings)

\* the vector a call added to the feature grid, None when it added nothing
AddedBy(c) == IF IsNone(c.res.emb) THEN None ELSE Get(c.res.emb).added

\* C6: a forward call that repeats the inputs of the call before it, with no
\* DAGs and layer dropout disabled (M = N), adds the same positional
\* embeddings and invokes the same layers as that call, whatever the state
\* of the global generator at either call.
C6_RepeatedCallDeterministic ==
    [][(/\ call.made
        /\ call'.made
        /\ call'.in = call.in
        /\ call.in.dags = "none"
        /\ cfg.min_num_layers_layer_dropout = cfg.num_layers) =>
            /\ AddedBy(call') = AddedBy(call)
            /\ call'.res.invoked = call.res.invoked
            /\ call'.res.outcome = call.res.outcome]_vars

\* a completed call that repeats the call before it with the global
\* generator in another state, on a model that samples embeddings
C6_Witness ==
    /\ call.made
    /\ call.again = "moved"
    /\ call.in.dags = "none"
    /\ cfg.min_num_layers_layer_dropout = cfg.num_layers
    /\ cfg.feature_positional_embedding # "none"
    /\ call.res.outcome = "ok"
    /\ ~Get(call.res.emb).usedCache
    /\ Len(call.res.invoked) = cfg.num_layers

\* C13, as claimed: on a model whose DAG positional-encoding width is
\* non-zero, every call that supplies no DAGs fails with an assertion error
\* and returns no output, whatever the cache flags and whatever earlier
\* calls left in the embedding cache.
C13_NoDagsRefusedWhenWidthSet ==
    (call.made /\ cfg.dag_pos_enc_dim # 0 /\ call.in.dags = "none") =>
        /\ call.res.outcome = "AssertionError"
        /\ IsNone(call.res.pred)

\* C18, as claimed: a positional-embedding step that completes leaves the
\* global generators in the state they were in before the step, for every
\* embedding kind and with or without DAGs.
C18_EmbeddingStepKeepsGenerators ==
    (RanEmbeddings(call) /\ Get(call.res.emb).outcome = "ok") =>
        Get(call.res.emb).rng = call.pre.rng

---------------------------------------------------------------------------
(* isolate_torch_rng as a scope: entered, drawn in, left (SpecRng).        *)

PlainConfig == Config(FALSE, "none", 0, MaxLayers, MaxLayers)

Devices == IF cuda_available THEN {"cpu", "cuda"} ELSE {"cpu"}

InitRng ==
    /\ cfg = PlainConfig
    /\ cuda_available \in BOOLEAN
    /\ cached_embeddings = None
    /\ rng \in [cpu : RngStates,
                cuda : IF cuda_available THEN RngStates ELSE {0}]
    /\ call = NoCall
    /\ scopes = <<>>
    /\ left = NoScopeLeft
    /\ stack = NoStackCall
    /\ prep = NoPrep
    /\ api = NoApi
    /\ digraph = NoGraph

\* entry of `with isolate_torch_rng(seed, device)`: the states are saved and
\* the generators seeded.  entry records the generators at entry.
EnterScope(seed) ==
    /\ Len(scopes) < MaxDepth
    /\ scopes' = Append(scopes, [saved |-> SaveRng(rng), entry |-> rng])
    /\ rng' = manual_seed(rng, seed)
    /\ UNCHANGED <<cfg, cuda_available, cached_embeddings, call, left, stack,
                   prep, api, digraph>>

\* a random draw, inside the open scopes or outside any
Draw(dev) ==
    /\ rng' = DrawOn(rng, dev, 1)
    /\ UNCHANGED <<cfg, cuda_available, cached_embeddings, call, scopes, left,
                   stack, prep, api, digraph>>

\* the innermost scope is left, by the end of the block ("return") or by an
\* exception raised in it ("raise"): the finally block runs either way
LeaveScope(how) ==
    /\ scopes # <<>>
    /\ rng' = RestoreRng(rng, scopes[Len(scopes)].saved)
    /\ scopes' = SubSeq(scopes, 1, Len(scopes) - 1)
    /\ left' = [made |-> TRUE, how |-> how, depth |-> Len(scopes),
                changed |-> rng # scopes[Len(scopes)].entry]
    /\ UNCHANGED <<cfg, cuda_available, cached_embeddings, call, stack, prep,
                   api, digraph>>

NextRng ==
    \/ \E seed \in 0 .. ModelSeed : EnterScope(seed)
    \/ \E dev \in Devices : Draw(dev)
    \/ \E how \in {"return", "raise"} : LeaveScope(how)

SpecRng == InitRng /\ [][NextRng]_vars

\* C5: whenever an isolate_torch_rng scope is left, normally or by an
\* exception, nested or repeated, the global generators (CPU, and the device
\* generator when one is available) are in the state they were in when that
\* scope was entered.
C5_ScopeRestoresGenerators ==
    [][Len(scopes') < Len(scopes) => rng' = scopes[Len(scopes)].entry]_vars

\* a nested scope left by an exception after the generators had moved away
\* from their state at entry, with a device generator available
C5_Witness ==
    /\ left.made
    /\ left.how = "raise"
    /\ left.depth = 2
    /\ left.changed
    /\ cuda_available
    /\ Len(scopes) = 1
    /\ rng # scopes[1].entry

---------------------------------------------------------------------------
(* LayerStack.forward on stacks of every size and dropout floor            *)
(* (SpecStack).                                                            *)

\* stacks of 1..MaxLayers layers with a dropout floor of 0..N layers
StackConfigs ==
    {c \in {Config(FALSE, "none", 0, N, M) :
                N \in 1 .. MaxLayers, M \in 0 .. MaxLayers} :
        c.min_num_layers_layer_dropout <= c.num_layers}

InitStack ==
    /\ cfg \in StackConfigs
    /\ cuda_available = FALSE
    /\ cached_embeddings = None
    /\ rng \in [cpu : RngStates, cuda : {0}]
    /\ call = NoCall
    /\ scopes = <<>>
    /\ left = NoScopeLeft
    /\ stack = NoStackCall
    /\ prep = NoPrep
    /\ api = NoApi
    /\ digraph = NoGraph

\* a call of LayerStack.forward
StackForward(half_layers) ==
    \E res \in {LayerStackForward(rng, cfg.num_layers,
                                  cfg.min_num_layers_layer_dropout, half_layers)} :
        /\ stack' = [made |-> TRUE, half |-> half_layers, pre |-> rng,
                     res |-> res]
        /\ rng' = res.rng
        /\ UNCHANGED <<cfg, cuda_available, cached_embeddings, call, scopes,
                       left, prep, api, digraph>>

NextStack == \E half_layers \in BOOLEAN : StackForward(half_layers)

SpecStack == InitStack /\ [][NextStack]_vars

\* C7: a LayerStack.forward call on N layers with floor M (M <= N) fails with
\* half_layers when M # N and otherwise applies N \div 2 layers; without
\* half_layers it applies n layers with M <= n <= N; the layers applied are
\* those of index 0..n-1, each once, in increasing order, and none of index
\* >= n.
C7_LayersApplied ==
    stack.made =>
        LET N == cfg.num_layers
            M == cfg.min_num_layers_layer_dropout
            n == stack.res.n_layers
        IN  /\ (stack.half /\ M # N) =>
                /\ stack.res.outcome = "AssertionError"
                /\ stack.res.invoked = <<>>
            /\ (stack.half /\ M = N) =>
                /\ stack.res.outcome = "ok"
                /\ n = N \div 2
            /\ ~stack.half =>
                /\ stack.res.outcome = "ok"
                /\ M <= n
                /\ n <= N
            /\ stack.res.outcome = "ok" =>
                /\ Len(stack.res.invoked) = n
                /\ \A i \in 1 .. n : stack.res.invoked[i] = i - 1

\* a call under layer dropout that applied more layers than the floor and
\* fewer than all
C7_Witness ==
    /\ stack.made
    /\ ~stack.half
    /\ stack.res.outcome = "ok"
    /\ stack.res.n_layers > cfg.min_num_layers_layer_dropout
    /\ stack.res.n_layers < cfg.num_layers
    /\ stack.res.invoked = <<0, 1>>

---------------------------------------------------------------------------
(* The input-preparation steps of _forward as functions of their inputs:   *)
(* feature-group padding and categorical index remapping (SpecInput).      *)

\* x[k] after the padding loop, for one row of x[k]: missing_to_next zero
\* columns are appended
PadFeatures(row, g) ==
    IF MissingToNext(Len(row), g) > 0
    THEN row \o [i \in 1 .. MissingToNext(Len(row), g) |-> 0]
    ELSE row

\* Python values that a list can hold: an int, or a list of values
PyInt(i) == [type |-> "int", val |-> i, items |-> <<>>]
PyList(items) == [type |-> "list", val |-> 0, items |-> items]

\* [i - lower for i in inds if lower <= i < upper], for inds from position k
RECURSIVE SubgroupFrom(_, _, _, _)
SubgroupFrom(inds, k, lower, upper) ==
    IF k > Len(inds)
    THEN <<>>
    ELSE (IF lower <= inds[k] /\ inds[k] < upper
          THEN <<PyInt(inds[k] - lower)>>
          ELSE <<>>) \o SubgroupFrom(inds, k + 1, lower, upper)

\* subgroup_indices of one batch item and one subgroup
SubgroupIndices(inds, subgroup, g) ==
    PyList(SubgroupFrom(inds, 1, subgroup * g, (subgroup + 1) * g))

\* new_categorical_inds: the loops over batch_idx (from b on) and subgroup
\* append one subgroup_indices list each
RECURSIVE NewCategoricalInds(_, _, _, _)
NewCategoricalInds(categorical_inds, b, n_subgroups, g) ==
    IF b > Len(categorical_inds)
    THEN <<>>
    ELSE [f \in 1 .. n_subgroups |->
             SubgroupIndices(categorical_inds[b], f - 1, g)]
         \o NewCategoricalInds(categorical_inds, b + 1, n_subgroups, g)

\* sum(lists, []): the concatenation of the items of the lists, from k on
RECURSIVE PySum(_, _)
PySum(lists, k) ==
    IF k > Len(lists) THEN <<>> ELSE lists[k].items \o PySum(lists, k + 1)

\* extra_encoders_args["categorical_inds"]: None when the encoder is no
\* SequentialEncoder, else the list handed to the encoder
EncoderCategoricalArg(categorical_inds, F, g, sequential) ==
    IF sequential
    THEN Some(PySum(NewCategoricalInds(categorical_inds, 1, NumGroups(F, g), g), 1))
    ELSE None

\* the values of a feature
XVals == {0, 1, 2}

\* the rows of x["main"] of up to MaxFeatures features
InputRows == UNION {[1 .. F -> XVals] : F \in 0 .. MaxFeatures}

Injective(s) == \A i, j \in 1 .. Len(s) : s[i] = s[j] => i = j

\* the categorical index lists of one batch item: up to MaxCatLen distinct
\* feature indices, in any order
CatLists ==
    {s \in UNION {[1 .. n -> 0 .. MaxFeatures] : n \in 0 .. MaxCatLen} :
        Injective(s)}

PadInputs ==
    {[op |-> "pad", done |-> FALSE, row |-> row, g |-> g, out |-> <<>>] :
        row \in InputRows, g \in 1 .. MaxGroup}

RemapInput(F, g, cats, sequential) ==
    [op |-> "remap", done |-> FALSE, F |-> F, g |-> g, cats |-> cats,
     sequential |-> sequential, out |-> None]

\* categorical indices for batches of one and two items
RemapInputs ==
    {RemapInput(F, g, cats, TRUE) :
        F \in 1 .. MaxFeatures, g \in 1 .. MaxGroup,
        cats \in [1 .. 1 -> CatLists] \cup [1 .. 2 -> CatLists]}
    \cup
    {RemapInput(F, g, cats, FALSE) :
        F \in 1 .. MaxFeatures, g \in 1 .. MaxGroup,
        cats \in [1 .. 1 -> CatLists]}

InitInput ==
    /\ cfg = PlainConfig
    /\ cuda_available = FALSE
    /\ cached_embeddings = None
    /\ rng = [cpu |-> 0, cuda |-> 0]
    /\ call = NoCall
    /\ scopes = <<>>
    /\ left = NoScopeLeft
    /\ stack = NoStackCall
    /\ prep \in PadInputs \cup RemapInputs
    /\ api = NoApi
    /\ digraph = NoGraph

\* the padding step on the drawn row
PadStep ==
    /\ prep.op = "pad"
    /\ ~prep.done
    /\ prep' = [prep EXCEPT !.done = TRUE, !.out = PadFeatures(prep.row, prep.g)]
    /\ UNCHANGED <<cfg, cuda_available, cached_embeddings, rng, call, scopes,
                   left, stack, api, digraph>>

\* the remapping step on the drawn categorical indices
RemapStep ==
    /\ prep.op = "remap"
    /\ ~prep.done
    /\ prep' = [prep EXCEPT
                    !.done = TRUE,
                    !.out = EncoderCategoricalArg(prep.cats, prep.F, prep.g,
                                                  prep.sequential)]
    /\ UNCHANGED <<cfg, cuda_available, cached_embeddings, rng, call, scopes,
                   left, stack, api, digraph>>

NextInput == PadStep \/ RemapStep

SpecInput == InitInput /\ [][NextInput]_vars

\* C8: for F features and features_per_group g >= 1 the padding step appends
\* the least number k of columns, 0 <= k <= g - 1, that makes F + k a
\* multiple of g; the first F columns keep their values and every appended
\* column is zero.
C8_PaddingLeastZeroColumns ==
    (prep.op = "pad" /\ prep.done) =>
        LET F == Len(prep.row)
            k == Len(prep.out) - F
        IN  /\ 0 <= k
            /\ k <= prep.g - 1
            /\ (F + k) % prep.g = 0
            /\ \A m \in 0 .. (k - 1) : (F + m) % prep.g # 0
            /\ \A i \in 1 .. F : prep.out[i] = prep.row[i]
            /\ \A i \in (F + 1) .. (F + k) : prep.out[i] = 0

\* three non-zero features padded to two groups of two, and a row that is
\* already a multiple of the group size exists beside it
C8_Witness ==
    /\ prep.op = "pad"
    /\ prep.done
    /\ prep.g = 2
    /\ prep.row = <<1, 2, 1>>
    /\ prep.out = <<1, 2, 1, 0>>

\* the offsets of the indices of inds that fall in subgroup f, in order
ExpectedEntry(inds, f, g) ==
    PyList(SubgroupFrom(inds, 1, f * g, (f + 1) * g))

\* C9, as claimed: the categorical structure the input encoder receives has
\* one entry per (batch element b, feature group f), at position
\* b * n_groups + f, and that entry is the list of the offsets i - f * g of
\* the indices i of categorical_inds[b] with f * g <= i < (f + 1) * g.
C9_OneEntryPerBatchAndGroup ==
    (prep.op = "remap" /\ prep.done /\ prep.sequential) =>
        LET n == NumGroups(prep.F, prep.g)
            got == Get(prep.out)
        IN  /\ Len(got) = Len(prep.cats) * n
            /\ \A b \in 0 .. (Len(prep.cats) - 1) : \A f \in 0 .. (n - 1) :
                 got[b * n + f + 1] = ExpectedEntry(prep.cats[b + 1], f, prep.g)

---------------------------------------------------------------------------
(* The public methods of PerFeatureTransformer: forward and its calling    *)
(* conventions (SpecApi).                                                  *)

\* supported_kwargs of forward
supported_kwargs ==
    {"only_return_standard_out", "style", "data_dags", "categorical_inds",
     "freeze_kv", "train_x", "train_y", "test_x", "single_eval_pos"}

\* the keyword-only parameters of _forward
ForwardKeywordParams ==
    {"single_eval_pos", "only_return_standard_out", "style", "data_dags",
     "categorical_inds", "half_layers"}

\* the names of the named train/test convention
NamedConvention == {"train_x", "train_y", "test_x"}

\* a call forward(*args, **kwargs):
\*   nargs   len(args)
\*   keys    the names of kwargs other than half_layers
\*   half    kwargs["half_layers"]: "absent", "False" or "True"
\*   F       the feature count of x (of train_x and test_x)
\*   y       the value passed as y (as train_y): None or its rows
\*   sep     the value of single_eval_pos when it is among the keys
\*   dags    the value of data_dags when it is among the keys
\*   style   whether the style value passed is not None
\*   test_x  whether the test_x value passed is not None
ForwardArgs(nargs, keys, half, F, y, sep, dags, style, test_x) ==
    [nargs |-> nargs, keys |-> keys, half |-> half, F |-> F, y |-> y,
     sep |-> sep, dags |-> dags, style |-> style, test_x |-> test_x]

\* the result of the dispatch of forward:
\*   outcome  "ok" when _forward was entered, else the exception raised
\*   stage    the step that raised, or "pipeline"
\*   x        the tensors that x of _forward is made of, in row order
\*   bound    None, or the arguments _forward was entered with
DispatchResult(outcome, stage, x, bound) ==
    [outcome |-> outcome, stage |-> stage, x |-> x, bound |-> bound]

\* the call self._forward(x, y, <explicit keywords>, **rest): Python refuses
\* a keyword given twice and a keyword that _forward does not declare
BindForward(x, explicit, rest, in) ==
    IF rest \cap explicit # {} \/ ~(rest \subseteq ForwardKeywordParams)
    THEN DispatchResult("TypeError", "binding", x, None)
    ELSE DispatchResult("ok", "pipeline", x, Some(in))

\* the keyword arguments of c as _forward receives them through **kwargs
KeywordSep(c) == IF "single_eval_pos" \in c.keys THEN c.sep ELSE None
KeywordDags(c) == IF "data_dags" \in c.keys THEN c.dags ELSE "none"
KeywordStyle(c) == "style" \in c.keys /\ c.style

\* PerFeatureTransformer.forward up to the call of _forward
forward(c) ==
    IF c.half = "True"
    THEN DispatchResult("AssertionError", "half_layers", <<>>, None)
    ELSE IF c.keys \ supported_kwargs # {}
    THEN DispatchResult("AssertionError", "keywords", <<>>, None)
    ELSE IF c.nargs = 0 /\ NamedConvention \subseteq c.keys
    THEN IF "single_eval_pos" \in c.keys
         THEN DispatchResult("AssertionError", "named_single_eval_pos", <<>>,
                             None)
         ELSE IF IsNone(c.y)
         THEN \* len(train_y) of None
              DispatchResult("TypeError", "len_train_y", <<>>, None)
         ELSE BindForward(
                 IF c.test_x THEN <<"train_x", "test_x">> ELSE <<"train_x">>,
                 {"single_eval_pos"}, c.keys \ NamedConvention,
                 Input(c.F, c.y, Some(Len(Get(c.y))), KeywordDags(c), FALSE,
                       KeywordStyle(c)))
    ELSE IF c.nargs = 2
    THEN BindForward(<<"x">>, {}, c.keys,
                     Input(c.F, c.y, KeywordSep(c), KeywordDags(c), FALSE,
                           KeywordStyle(c)))
    ELSE IF c.nargs = 3
    THEN BindForward(<<"x">>, {"style"}, c.keys,
                     Input(c.F, c.y, KeywordSep(c), KeywordDags(c), FALSE,
                           c.style))
    ELSE DispatchResult("ValueError", "usage", <<>>, None)

\* the keyword names of the calls of SpecApi: supported ones and one that is
\* not
KwargNames ==
    {"style", "data_dags", "freeze_kv", "train_x", "train_y", "test_x",
     "single_eval_pos", "verbose"}

ForwardCalls ==
    {ForwardArgs(nargs, keys, half, MaxFeatures, y, Some(SeqLen - 1), "none",
                 style, test_x) :
        nargs \in 0 .. 4, keys \in SUBSET KwargNames,
        half \in {"absent", "False", "True"},
        y \in {None, Some(ConstRows(SeqLen - 1))},
        style \in BOOLEAN, test_x \in BOOLEAN}

\* the configurations of SpecApi: with and without the training-set cache,
\* with and without a separate decoder and a compression stage
ApiConfigs ==
    {Config(cache, "normal_rand_vec", 0, MaxLayers, MaxLayers) :
        cache \in BOOLEAN} \cup
    {WithDecoder(Config(FALSE, "normal_rand_vec", 0, MaxLayers, MaxLayers),
                 compression) : compression \in BOOLEAN}

InitApi ==
    /\ cfg \in ApiConfigs
    /\ cuda_available = FALSE
    /\ cached_embeddings = None
    /\ rng = [cpu |-> 0, cuda |-> 0]
    /\ call = NoCall
    /\ scopes = <<>>
    /\ left = NoScopeLeft
    /\ stack = NoStackCall
    /\ prep = NoPrep
    /\ api = NoApi
    /\ digraph = NoGraph

\* a call of forward: the dispatch, and the pipeline when it is entered
ForwardCall(c) ==
    /\ \E d \in {forward(c)} :
         IF IsNone(d.bound)
         THEN /\ api' = [op |-> "forward", c |-> c, d |-> d, res |-> None]
              /\ UNCHANGED <<cached_embeddings, rng, call>>
         ELSE \E res \in {_forward(cached_embeddings, rng, Get(d.bound))} :
                /\ api' = [op |-> "forward", c |-> c, d |-> d,
                           res |-> Some(res)]
                /\ call' = [made |-> TRUE, in |-> Get(d.bound),
                            pre |-> [cache |-> cached_embeddings, rng |-> rng],
                            again |-> Again(Get(d.bound)),
                            res |-> res]
                /\ cached_embeddings' = res.cache
                /\ rng' = res.rng
    /\ UNCHANGED <<cfg, cuda_available, scopes, left, stack, prep, digraph>>

\* the attributes that __init__ sets on a PerFeatureTransformer
TransformerAttributes ==
    {"encoder", "y_encoder", "ninp", "nhid_factor", "features_per_group",
     "cache_trainset_representation", "cached_embeddings",
     "transformer_encoder", "transformer_decoder",
     "global_att_embeddings_for_compression", "encoder_compression_layer",
     "n_out", "decoder_dict", "feature_positional_embedding",
     "feature_positional_embedding_embeddings", "dag_pos_enc_dim",
     "cached_feature_positional_embeddings", "seed"}

\* the attributes of self that get_embedding reads, in the order it reads
\* them
EmbeddingAttributes(half_layers) ==
    <<"min_num_layers_layer_dropout", "num_layers", "layers">>

\* the result of get_embedding: the outcome, the layers applied to x in
\* order, and the generators after
EmbeddingResult(outcome, n_layers, invoked, r) ==
    [outcome |-> outcome, n_layers |-> n_layers, invoked |-> invoked,
     rng |-> r]

\* PerFeatureTransformer.get_embedding: the first attribute of self that
\* __init__ did not set raises AttributeError when it is read
get_embedding(r, half_layers) ==
    IF \E i \in 1 .. Len(EmbeddingAttributes(half_layers)) :
          EmbeddingAttributes(half_layers)[i] \notin TransformerAttributes
    THEN EmbeddingResult("AttributeError", 0, <<>>, r)
    ELSE LET res == LayerStackForward(r, cfg.num_layers,
                        cfg.min_num_layers_layer_dropout, half_layers)
         IN  EmbeddingResult(res.outcome, res.n_layers, res.invoked, res.rng)

\* a call of get_embedding
GetEmbedding(half_layers) ==
    /\ api.op = "none"
    /\ \E res \in {get_embedding(rng, half_layers)} :
         /\ api' = [op |-> "get_embedding", half |-> half_layers,
                    res |-> res]
         /\ rng' = res.rng
    /\ UNCHANGED <<cfg, cuda_available, cached_embeddings, call, scopes,
                   left, stack, prep, digraph>>

\* the layers of a stack of n layers, as (stack, index) pairs
StackLayers(name, n) == {<<name, i>> : i \in 0 .. (n - 1)}

\* self.transformer_decoder or self.transformer_encoder
DecoderOrEncoder ==
    IF cfg.use_separate_decoder
    THEN StackLayers("transformer_decoder", cfg.nlayers_decoder)
    ELSE StackLayers("transformer_encoder", cfg.num_layers)

\* PerFeatureTransformer.empty_trainset_representation_cache: the layers
\* whose empty_trainset_representation_cache it calls
empty_trainset_representation_cache == DecoderOrEncoder

\* a call of empty_trainset_representation_cache
EmptyCache ==
    /\ api.op = "none"
    /\ api' = [op |-> "empty_trainset_representation_cache",
               cleared |-> empty_trainset_representation_cache]
    /\ UNCHANGED <<cfg, cuda_available, cached_embeddings, rng, call, scopes,
                   left, stack, prep, digraph>>

\* a call of forward on a model on which no public method was called yet
FirstForwardCall ==
    /\ api.op = "none"
    /\ \E c \in ForwardCalls : ForwardCall(c)

\* one call of a public method on a constructed model
NextApi ==
    \/ FirstForwardCall
    \/ \E half_layers \in BOOLEAN : GetEmbedding(half_layers)
    \/ EmptyCache

SpecApi == InitApi /\ [][NextApi]_vars

\* a call in one of the three conventions, with supported keywords that do
\* not belong to another convention
NamedCall(c) == c.nargs = 0 /\ NamedConvention \subseteq c.keys
TwoArgCall(c) == c.nargs = 2 /\ c.keys \cap NamedConvention = {}
ThreeArgCall(c) ==
    c.nargs = 3 /\ c.keys \cap (NamedConvention \cup {"style"}) = {}

\* C11, as claimed: a keyword outside the supported set is rejected before
\* anything else runs; among the calls whose keywords are all supported, the
\* named train/test call runs the pipeline on x = train_x followed by
\* test_x, y = train_y and single_eval_pos = len(train_y), and is rejected
\* when it names single_eval_pos; the call with 2 positional arguments runs
\* the pipeline on (x, y) and the one with 3 on (style, x, y); every other
\* call raises a usage error without running the pipeline.
C11_DispatchByConvention ==
    (api.op = "forward") =>
        LET c == api.c
            d == api.d
        IN  /\ (c.keys \ supported_kwargs # {}) =>
                /\ d.outcome = "AssertionError"
                /\ IsNone(d.bound)
            /\ (c.keys \subseteq supported_kwargs /\ c.half # "True") =>
                /\ (NamedCall(c) /\ "single_eval_pos" \in c.keys) =>
                      /\ d.outcome = "AssertionError"
                      /\ IsNone(d.bound)
                /\ (NamedCall(c) /\ "single_eval_pos" \notin c.keys
                        /\ ~IsNone(c.y)) =>
                      /\ ~IsNone(d.bound)
                      /\ d.x = IF c.test_x THEN <<"train_x", "test_x">>
                                           ELSE <<"train_x">>
                      /\ Get(d.bound).y = c.y
                      /\ Get(d.bound).sep = Some(Len(Get(c.y)))
                /\ TwoArgCall(c) =>
                      /\ ~IsNone(d.bound)
                      /\ Get(d.bound).y = c.y
                      /\ Get(d.bound).sep = KeywordSep(c)
                      /\ Get(d.bound).style = KeywordStyle(c)
                /\ ThreeArgCall(c) =>
                      /\ ~IsNone(d.bound)
                      /\ Get(d.bound).y = c.y
                      /\ Get(d.bound).sep = KeywordSep(c)
                      /\ Get(d.bound).style = c.style
                /\ (c.nargs \notin {2, 3} /\ ~NamedCall(c)) =>
                      /\ d.outcome = "ValueError"
                      /\ IsNone(d.bound)

\* C15, as claimed: on any constructed model get_embedding returns without
\* raising, having applied to x the first n layers of the encoder stack in
\* order, with n = N \div 2 when half_layers is set and no layer dropout is
\* configured, and M <= n <= N otherwise.
C15_GetEmbeddingDepthLimited ==
    (/\ api.op = "get_embedding"
     /\ ~(api.half
            /\ cfg.min_num_layers_layer_dropout # cfg.num_layers)) =>
        LET n == api.res.n_layers
        IN  /\ api.res.outcome = "ok"
            /\ api.res.invoked = Take(Layers(cfg.num_layers), n)
            /\ IF api.half
               THEN n = cfg.num_layers \div 2
               ELSE /\ cfg.min_num_layers_layer_dropout <= n
                    /\ n <= cfg.num_layers

\* C16, as claimed: after empty_trainset_representation_cache returns, the
\* cache-clearing operation of every layer of the encoder stack, the layers
\* that a forward call asks to cache the training-set representation, has
\* been invoked, also when a separate decoder is configured.
C16_EncoderLayersCleared ==
    (api.op = "empty_trainset_representation_cache") =>
        StackLayers("transformer_encoder", cfg.num_layers)
            \subseteq api.cleared

---------------------------------------------------------------------------
(* Forward calls on models with a separate decoder (SpecDecoder).          *)

DecoderConfigs ==
    {WithDecoder(Config(cache, "normal_rand_vec", 0, MaxLayers, MaxLayers),
                 compression) :
        cache \in BOOLEAN, compression \in BOOLEAN}

DecoderInputs ==
    {Input(MaxFeatures, y, sep, "none", half, FALSE) :
        y \in {None, Some(ConstRows(SeqLen))},
        sep \in {None} \cup {Some(p) : p \in 0 .. SeqLen},
        half \in BOOLEAN}

InitDecoder == InitModel(DecoderConfigs)

NextDecoder == \E in \in DecoderInputs : Forward(in)

SpecDecoder == InitDecoder /\ [][NextDecoder]_vars

\* a call that got as far as the layer stacks
ReachedLayerStacks(c) ==
    /\ c.made
    /\ c.res.stage \in
          {"transformer_encoder", "transformer_decoder",
           "encoder_compression", "done"}

\* C17, as claimed: with a separate decoder, a call with split index p that
\* reaches the layer stacks (half_layers not set) applies the encoder stack
\* to rows 0..p-1 only and the decoder stack to rows p..end with split index
\* 0; the decoder cross-attends to the compressed tokens when a compression
\* stage is configured and to the encoder output of the training rows
\* otherwise; the call completes and its readout has one row per evaluation
\* row, SeqLen - p.
C17_DecoderOnEvaluationRows ==
    (/\ ReachedLayerStacks(call)
     /\ cfg.use_separate_decoder
     /\ ~call.in.half) =>
        LET p == SplitIndex(call.in.sep)
        IN  /\ call.res.outcome = "ok"
            /\ ~IsNone(call.res.pred)
            /\ Get(call.res.pred).enc_rows = p
            /\ Get(call.res.pred).rows = SeqLen - p
            /\ ~IsNone(Get(call.res.pred).dec)
            /\ Get(Get(call.res.pred).dec).rows = SeqLen - p
            /\ Get(Get(call.res.pred).dec).single_eval_pos = 0
            /\ Get(Get(call.res.pred).dec).att_src =
                  IF cfg.use_encoder_compression_layer
                  THEN "train_encoder_out"
                  ELSE "encoder_out"

---------------------------------------------------------------------------
(* _networkx_add_direct_connections, repeated by add_embeddings until it   *)
(* returns False (SpecGraph).  A graph is its adjacency: for each node the *)
(* list of its successors in insertion order, as networkx iterates them.   *)

\* the nodes of a data DAG, in the order of list(graph.nodes)
GraphNodes == <<1, 2, 3>>

NodeSet == {GraphNodes[i] : i \in 1 .. Len(GraphNodes)}

Range(s) == {s[i] : i \in 1 .. Len(s)}

\* the edges of an adjacency
EdgeSet(adj) == {e \in NodeSet \X NodeSet : e[2] \in Range(adj[e[1]])}

\* MissingEdge refusing to add a self-loop
MissingEdgeNoSelfLoop(adj, node, second_neighbor) ==
    /\ second_neighbor # node
    /\ second_neighbor \notin Range(adj[node])

\* second_neighbor not in graph.neighbors(node)
MissingEdge(adj, node, second_neighbor) ==
    second_neighbor \notin Range(adj[node])

\* the loop over second_neighbors, from position k on; st is the graph and
\* added_connection
RECURSIVE OverSecondNeighbors(_, _, _, _)
OverSecondNeighbors(st, node, second_neighbors, k) ==
    IF k > Len(second_neighbors)
    THEN st
    ELSE OverSecondNeighbors(
            IF MissingEdge(st.adj, node, second_neighbors[k])
            THEN [adj |-> [st.adj EXCEPT
                             ![node] = Append(@, second_neighbors[k])],
                  added_connection |-> TRUE]
            ELSE st,
            node, second_neighbors, k + 1)

\* the loop over neighbors, from position j on; second_neighbors is read
\* from the graph as it is when the neighbor is reached
RECURSIVE OverNeighbors(_, _, _, _)
OverNeighbors(st, node, neighbors, j) ==
    IF j > Len(neighbors)
    THEN st
    ELSE OverNeighbors(
            OverSecondNeighbors(st, node, st.adj[neighbors[j]], 1),
            node, neighbors, j + 1)

\* the loop over nodes, from position i on; neighbors is read from the graph
\* as it is when the node is reached
RECURSIVE OverNodes(_, _, _)
OverNodes(st, nodes, i) ==
    IF i > Len(nodes)
    THEN st
    ELSE OverNodes(OverNeighbors(st, nodes[i], st.adj[nodes[i]], 1),
                   nodes, i + 1)

\* _networkx_add_direct_connections(graph): the graph after the pass and
\* the value returned
_networkx_add_direct_connections(adj) ==
    OverNodes([adj |-> adj, added_connection |-> FALSE], GraphNodes, 1)

\* the successor lists of a node: distinct nodes in any order
SuccessorLists ==
    {s \in UNION {[1 .. n -> NodeSet] : n \in 0 .. Len(GraphNodes)} :
        Injective(s)}

\* g_ = data_dag.copy() for every graph on the nodes
InitGraph ==
    /\ cfg = PlainConfig
    /\ cuda_available = FALSE
    /\ cached_embeddings = None
    /\ rng = [cpu |-> 0, cuda |-> 0]
    /\ call = NoCall
    /\ scopes = <<>>
    /\ left = NoScopeLeft
    /\ stack = NoStackCall
    /\ prep = NoPrep
    /\ api = NoApi
    /\ \E adj \in [NodeSet -> SuccessorLists] :
         digraph = [made |-> TRUE, data_dag |-> adj, g_ |-> adj, passes |-> 0,
                    done |-> FALSE]

\* one iteration of `while _networkx_add_direct_connections(g_): pass`
ClosurePass ==
    /\ digraph.made
    /\ ~digraph.done
    /\ \E res \in {_networkx_add_direct_connections(digraph.g_)} :
         digraph' = [digraph EXCEPT !.g_ = res.adj,
                                    !.passes = @ + 1,
                                    !.done = ~res.added_connection]
    /\ UNCHANGED <<cfg, cuda_available, cached_embeddings, rng, call, scopes,
                   left, stack, prep, api>>

NextGraph == ClosurePass

SpecGraph == InitGraph /\ [][NextGraph]_vars

\* the walks of k edges on the nodes
Walks(k) == [1 .. (k + 1) -> NodeSet]

\* edges has a path of one or more edges from u to w
HasPath(edges, u, w) ==
    \E k \in 1 .. Len(GraphNodes) : \E walk \in Walks(k) :
        /\ walk[1] = u
        /\ walk[k + 1] = w
        /\ \A i \in 1 .. k : <<walk[i], walk[i + 1]>> \in edges

\* the transitive closure of edges
Closure(edges) == {e \in NodeSet \X NodeSet : HasPath(edges, e[1], e[2])}

\* C14: repeating _networkx_add_direct_connections until it returns False
\* terminates: every pass that returns True has added an edge, so there are
\* at most as many such passes as node pairs; the graph then has the input's
\* nodes and exactly the edges (u, w) for which the input graph has a path
\* of one or more edges from u to w; and on an input with no missing
\* transitive edge the first pass adds no edge and returns False.
C14_FixpointIsTransitiveClosure ==
    digraph.made =>
        LET input == EdgeSet(digraph.data_dag)
            edges == EdgeSet(digraph.g_)
            added == digraph.passes - (IF digraph.done THEN 1 ELSE 0)
        IN  /\ DOMAIN digraph.g_ = NodeSet
            /\ Cardinality(edges) >= Cardinality(input) + added
            /\ digraph.passes <= Cardinality(NodeSet \X NodeSet) + 1
            /\ input \subseteq edges
            /\ edges \subseteq Closure(input)
            /\ digraph.done => edges = Closure(input)
            /\ (digraph.passes >= 1 /\ Closure(input) = input) =>
                  /\ digraph.done
                  /\ digraph.passes = 1
                  /\ digraph.g_ = digraph.data_dag

\* the chain 1 -> 2 -> 3 closed: the edge 1 -> 3 was added and the loop ended
C14_Witness ==
    /\ digraph.made
    /\ digraph.done
    /\ digraph.data_dag = [n \in NodeSet |->
                              IF n = 3 THEN <<>> ELSE <<n + 1>>]
    /\ EdgeSet(digraph.g_) = {<<1, 2>>, <<2, 3>>, <<1, 3>>}
    /\ digraph.passes = 2

====
